---- MODULE Spec2Model ----
(***************************************************************************)
(* Product catalogue use-case layer (store/usecases/product.py):           *)
(* ProductUsecase.create / get / query / update / delete running against   *)
(* one document collection "products".  Every request is a coroutine: it   *)
(* runs without interruption up to the completion of each awaited store    *)
(* call, so each awaited store call is one atomic step and requests of     *)
(* different callers interleave between those steps.                       *)
(***************************************************************************)
EXTENDS Integers, Sequences, FiniteSets, TLC

\* ------------------------------------------------------------------ bounds

\* Number of ids (uuid4 values) the id generator may hand out.
MaxIds == 2
\* Last instant of the wall clock.
MaxClock == 1

\* ------------------------------------------------------------ input domains

Procs == {"p1", "p2"}
Ids == 1..MaxIds

\* ProductIn bodies offered to create (name, quantity, price, status).
ProductIns ==
    { [name |-> "Laptop", quantity |-> 10, price |-> 4500, status |-> TRUE],
      [name |-> "Laptop", quantity |-> 0,  price |-> 6500, status |-> FALSE],
      [name |-> "Tablet", quantity |-> 5,  price |-> 9000, status |-> TRUE] }

\* An Optional value: <<>> is None, <<v>> is the value v.
None == <<>>
Some(v) == <<v>>
IsNone(o) == o = <<>>

\* ProductUpdate bodies offered to update: every field Optional.
ProductUpdates ==
    { [name |-> None, quantity |-> None, price |-> Some(9000), status |-> None],
      [name |-> Some("Tablet"), quantity |-> Some(0), price |-> None,
       status |-> Some(FALSE)] }

\* Optional price bounds offered to query.
PriceBounds == {None, Some(4500), Some(9000)}

\* What a patched write primitive is made to raise ("none": not patched).
SideEffects == {"none", "Simulated DB Error"}

\* ------------------------------------------------------------------- state

VARIABLES
    collection,     \* the documents of collection "products", in natural order
    unique_index,   \* TRUE once the unique index on "name" exists
    next_uuid,      \* the next id the id generator hands out
    next_oid,       \* the next surrogate key (_id) the store assigns
    now,            \* the UTC wall clock
    pc,             \* per caller: where its request stands
    call,           \* per caller: the request (operation and arguments)
    product_model,  \* per caller: create's local ProductModel, as <<>> or <<m>>
    result,         \* per caller: what the finished request returned or raised
    seen,           \* per caller (history): removals of the id when delete checked it
    deletions,      \* per id (history): records a delete_one removed
    true_returns    \* per id (history): delete calls that returned True

vars == <<collection, unique_index, next_uuid, next_oid, now, pc, call,
          product_model, result, seen, deletions, true_returns>>

NoCall == [op |-> "none"]
NoResult == [kind |-> "none"]

\* ------------------------------------------------- results and exceptions

Returned(kind, value) == [kind |-> kind, value |-> value]
Raised(kind, message) == [kind |-> kind, message |-> message]

\* f"Product not found with filter: {id}"
NotFoundMessage(id) == <<"Product not found with filter: ", id>>
\* "Product with this name already exists."
DuplicateMessage == <<"Product with this name already exists.">>
\* f"Failed to insert product: {e}"
InsertFailedMessage(e) == <<"Failed to insert product: ", e>>
\* f"Failed to update product: {e}", the message the update tests expect
UpdateFailedMessage(e) == <<"Failed to update product: ", e>>
\* str(AttributeError) of a name the datetime module does not have
AttributeErrorMessage(attr) == <<"module 'datetime' has no attribute ", attr>>

\* ------------------------------------------------------ the entity schema

ProductOutFields ==
    {"id", "name", "quantity", "price", "status", "created_at", "updated_at"}

\* ProductModel(**body.model_dump()): the input plus a generated id and the
\* two timestamps, both taken at construction.
ProductModel(body, uuid, utc) ==
    [id |-> uuid, name |-> body.name, quantity |-> body.quantity,
     price |-> body.price, status |-> body.status,
     created_at |-> utc, updated_at |-> utc]

\* ProductOut(**document): the output view keeps the schema's fields and
\* drops every other key of the document (the store's _id).
ProductOut(document) == [f \in ProductOutFields |-> document[f]]

\* ProductUpdateOut(**document): same fields as the output view.
ProductUpdateOut(document) == [f \in ProductOutFields |-> document[f]]

\* body.model_dump(exclude_none=True): only the fields that were provided.
ModelDumpExcludeNone(body) ==
    [f \in {g \in DOMAIN body : ~IsNone(body[g])} |-> body[f][1]]

\* --------------------------------------------------- the document store

\* Position of the first document whose id is the filter's, 0 if none.
MatchPos(coll, id) ==
    IF \E i \in 1..Len(coll) : coll[i].id = id
    THEN CHOOSE i \in 1..Len(coll) :
             /\ coll[i].id = id
             /\ \A j \in 1..(i - 1) : coll[j].id # id
    ELSE 0

RemoveAt(coll, i) ==
    [j \in 1..(Len(coll) - 1) |-> IF j < i THEN coll[j] ELSE coll[j + 1]]

\* collection.find_one({"id": id}): the first match, or None.
FindOne(coll, id) ==
    IF MatchPos(coll, id) = 0 THEN None ELSE Some(coll[MatchPos(coll, id)])

\* The unique index on "name" rejects a document whose name another
\* document (other than the one at position skip) already has.
DuplicateKey(coll, idx, name, skip) ==
    idx /\ \E i \in 1..Len(coll) : i # skip /\ coll[i].name = name

\* insert_one against a collection whose index on name is not unique.
InsertOne_NoUniqueIndex(coll, idx, document, oid) ==
    [raised |-> "none", collection |-> Append(coll, ("_id" :> oid) @@ document)]

\* collection.insert_one(document): DuplicateKeyError under the unique
\* index, otherwise the document is appended under a fresh _id.
InsertOne(coll, idx, document, oid) ==
    IF DuplicateKey(coll, idx, document.name, 0)
    THEN [raised |-> "DuplicateKeyError", collection |-> coll]
    ELSE [raised |-> "none",
          collection |-> Append(coll, ("_id" :> oid) @@ document)]

\* delete_one with a filter every document matches.
DeleteOne_AnyDocument(coll, id) ==
    IF MatchPos(coll, id) = 0
    THEN [deleted_count |-> 0, collection |-> coll]
    ELSE [deleted_count |-> 1, collection |-> RemoveAt(coll, 1)]

\* collection.delete_one({"id": id}): removes the first match.
DeleteOne(coll, id) ==
    IF MatchPos(coll, id) = 0
    THEN [deleted_count |-> 0, collection |-> coll]
    ELSE [deleted_count |-> 1, collection |-> RemoveAt(coll, MatchPos(coll, id))]

\* {"$set": update_data} applied to one document.
SetFields(document, update_data) ==
    [f \in DOMAIN document |->
        IF f \in DOMAIN update_data THEN update_data[f] ELSE document[f]]

\* collection.find_one_and_update(filter={"id": id}, update={"$set": ...},
\* return_document=AFTER): no upsert; None when nothing matches.
FindOneAndUpdate(coll, idx, id, update_data) ==
    LET i == MatchPos(coll, id) IN
    IF i = 0
    THEN [raised |-> "none", document |-> None, collection |-> coll]
    ELSE LET after == SetFields(coll[i], update_data) IN
         IF DuplicateKey(coll, idx, after.name, i)
         THEN [raised |-> "DuplicateKeyError", document |-> None,
               collection |-> coll]
         ELSE [raised |-> "none", document |-> Some(after),
               collection |-> [coll EXCEPT ![i] = after]]

\* The price condition of a filter holds of a document.
Matches(document, filter_query) ==
    \A field \in DOMAIN filter_query :
        \A operator \in DOMAIN filter_query[field] :
            /\ operator = "$gt" => document[field] > filter_query[field][operator]
            /\ operator = "$gte" => document[field] >= filter_query[field][operator]
            /\ operator = "$lt" => document[field] < filter_query[field][operator]

\* collection.find(filter_query): the matching documents in natural order.
Find(coll, filter_query) ==
    SelectSeq(coll, LAMBDA document : Matches(document, filter_query))

LiveIds == {collection[i].id : i \in 1..Len(collection)}
LiveNames == {collection[i].name : i \in 1..Len(collection)}

\* ------------------------------------------------------------ the use case

\* Line 1 is "import datetime": the name datetime is the module, and these
\* are the module's public attributes.
DatetimeModuleAttributes ==
    {"MAXYEAR", "MINYEAR", "UTC", "date", "datetime", "time", "timedelta",
     "timezone", "tzinfo"}

\* Evaluating datetime.<attr>() on the module: the attribute is looked up on
\* the module and the lookup raises AttributeError when it is not there.
DatetimeLookupRaises(attr) == attr \notin DatetimeModuleAttributes

\* query with closed ranges ($gte where the code has $gt).
FilterQuery_Closed(min_price, max_price) ==
    IF ~IsNone(min_price) /\ ~IsNone(max_price)
    THEN "price" :> (("$gte" :> min_price[1]) @@ ("$lt" :> max_price[1]))
    ELSE IF ~IsNone(min_price)
    THEN "price" :> ("$gte" :> min_price[1])
    ELSE IF ~IsNone(max_price)
    THEN "price" :> ("$lt" :> max_price[1])
    ELSE <<>>

\* query's filter_query, built from the two optional bounds.
FilterQuery(min_price, max_price) ==
    IF ~IsNone(min_price) /\ ~IsNone(max_price)
    THEN "price" :> (("$gt" :> min_price[1]) @@ ("$lt" :> max_price[1]))
    ELSE IF ~IsNone(min_price)
    THEN "price" :> ("$gt" :> min_price[1])
    ELSE IF ~IsNone(max_price)
    THEN "price" :> ("$lt" :> max_price[1])
    ELSE <<>>

\* [ProductOut(**item) async for item in ...]
ProductOuts(documents) == [i \in 1..Len(documents) |-> ProductOut(documents[i])]

Init ==
    /\ collection = <<>>
    /\ unique_index = FALSE
    /\ next_uuid = 1
    /\ next_oid = 1
    /\ now = 0
    /\ pc = [p \in Procs |-> "idle"]
    /\ call = [p \in Procs |-> NoCall]
    /\ product_model = [p \in Procs |-> None]
    /\ result = [p \in Procs |-> NoResult]
    /\ seen = [p \in Procs |-> 0]
    /\ deletions = [i \in Ids |-> 0]
    /\ true_returns = [i \in Ids |-> 0]

\* A request is in progress: it has been started and has not finished.
InProgress(p) == pc[p] \notin {"idle", "done"}

\* A finished request hands its outcome to its caller before anything else
\* happens: the hand-over (Return) touches nothing but the caller's own
\* locals, so no interleaving of store calls is lost by taking it at once.
NoOutcomePending == \A q \in Procs : pc[q] # "done"

\* A caller may start a request whenever it is idle.
MayStart(p) == pc[p] = "idle" /\ NoOutcomePending

\* create, lines 21-24: the ProductModel is built (id and timestamps are
\* generated) and the unique index on name is ensured.
Create_create_index(p, body, side_effect) ==
    /\ MayStart(p)
    /\ next_uuid <= MaxIds
    /\ call' = [call EXCEPT ![p] =
                   [op |-> "create", body |-> body, side_effect |-> side_effect]]
    /\ product_model' = [product_model EXCEPT ![p] =
                            Some(ProductModel(body, next_uuid, now))]
    /\ next_uuid' = next_uuid + 1
    /\ unique_index' = TRUE
    /\ pc' = [pc EXCEPT ![p] = "insert_one"]
    /\ UNCHANGED <<collection, next_oid, now, result, seen, deletions,
                   true_returns>>

\* create with the DuplicateKeyError clause missing: one except for all.
CreateOutcome_OneExcept(raised, model) ==
    IF raised # "none"
    THEN Raised("InsertionException", InsertFailedMessage(raised))
    ELSE Returned("ProductOut", ProductOut(model))

\* What create returns or raises once insert_one has answered with `raised`.
CreateOutcome(raised, model) ==
    IF raised = "DuplicateKeyError"
    THEN Raised("InsertionException", DuplicateMessage)
    ELSE IF raised # "none"
    THEN Raised("InsertionException", InsertFailedMessage(raised))
    ELSE Returned("ProductOut", ProductOut(model))

\* create, lines 25-31: insert_one, the two except clauses, the return.
Create_insert_one(p) ==
    /\ pc[p] = "insert_one"
    /\ NoOutcomePending
    /\ LET model == product_model[p][1]
           ins == IF call[p].side_effect # "none"
                  THEN [raised |-> call[p].side_effect, collection |-> collection]
                  ELSE InsertOne(collection, unique_index, model, next_oid)
       IN /\ collection' = ins.collection
          /\ next_oid' = IF ins.raised = "none" THEN next_oid + 1 ELSE next_oid
          /\ result' = [result EXCEPT ![p] = CreateOutcome(ins.raised, model)]
    /\ pc' = [pc EXCEPT ![p] = "done"]
    /\ UNCHANGED <<unique_index, next_uuid, now, call, product_model, seen,
                   deletions, true_returns>>

\* What get returns or raises for find_one's answer.
GetOutcome(found, id) ==
    IF IsNone(found)
    THEN Raised("NotFoundException", NotFoundMessage(id))
    ELSE Returned("ProductOut", ProductOut(found[1]))

\* get, lines 34-39.
Get(p, id) ==
    /\ MayStart(p)
    /\ call' = [call EXCEPT ![p] = [op |-> "get", id |-> id]]
    /\ result' = [result EXCEPT ![p] = GetOutcome(FindOne(collection, id), id)]
    /\ pc' = [pc EXCEPT ![p] = "done"]
    /\ UNCHANGED <<collection, unique_index, next_uuid, next_oid, now,
                   product_model, seen, deletions, true_returns>>

\* query, lines 44-53.
Query(p, min_price, max_price) ==
    /\ MayStart(p)
    /\ call' = [call EXCEPT ![p] =
                   [op |-> "query", min_price |-> min_price,
                    max_price |-> max_price]]
    /\ result' = [result EXCEPT ![p] =
                     Returned("list",
                         ProductOuts(Find(collection,
                                          FilterQuery(min_price, max_price))))]
    /\ pc' = [pc EXCEPT ![p] = "done"]
    /\ UNCHANGED <<collection, unique_index, next_uuid, next_oid, now,
                   product_model, seen, deletions, true_returns>>

\* update, lines 59-68, for find_one_and_update's answer: nothing catches
\* what the store call raises, so it leaves update as it is.
UpdateOutcome(upd, id) ==
    IF upd.raised # "none"
    THEN Raised(IF upd.raised = "DuplicateKeyError"
                THEN "DuplicateKeyError" ELSE "Exception",
                <<upd.raised>>)
    ELSE IF IsNone(upd.document)
    THEN Raised("NotFoundException", NotFoundMessage(id))
    ELSE Returned("ProductUpdateOut", ProductUpdateOut(upd.document[1]))

\* update, lines 56-68.  Line 57 evaluates datetime.utcnow() on the module
\* bound by line 1; when that lookup raises, update ends there, before the
\* store is called.
Update(p, id, body, side_effect) ==
    /\ MayStart(p)
    /\ call' = [call EXCEPT ![p] =
                   [op |-> "update", id |-> id, body |-> body,
                    side_effect |-> side_effect]]
    /\ IF DatetimeLookupRaises("utcnow")
       THEN /\ result' = [result EXCEPT ![p] =
                            Raised("AttributeError",
                                   AttributeErrorMessage("utcnow"))]
            /\ collection' = collection
       ELSE LET update_data ==
                    ("updated_at" :> now) @@ ModelDumpExcludeNone(body)
                upd == IF side_effect # "none"
                       THEN [raised |-> side_effect, document |-> None,
                             collection |-> collection]
                       ELSE FindOneAndUpdate(collection, unique_index, id,
                                             update_data)
            IN /\ result' = [result EXCEPT ![p] = UpdateOutcome(upd, id)]
               /\ collection' = upd.collection
    /\ pc' = [pc EXCEPT ![p] = "done"]
    /\ UNCHANGED <<unique_index, next_uuid, next_oid, now, product_model,
                   seen, deletions, true_returns>>

\* delete, lines 71-73: the existence check.
Delete_find_one(p, id) ==
    /\ MayStart(p)
    /\ call' = [call EXCEPT ![p] = [op |-> "delete", id |-> id]]
    /\ seen' = [seen EXCEPT ![p] = deletions[id]]
    /\ IF IsNone(FindOne(collection, id))
       THEN /\ result' = [result EXCEPT ![p] =
                            Raised("NotFoundException", NotFoundMessage(id))]
            /\ pc' = [pc EXCEPT ![p] = "done"]
       ELSE /\ result' = result
            /\ pc' = [pc EXCEPT ![p] = "delete_one"]
    /\ UNCHANGED <<collection, unique_index, next_uuid, next_oid, now,
                   product_model, deletions, true_returns>>

\* delete that compares deleted_count with 1 instead of 0.
DeleteOutcome_OffByOne(deleted_count) == Returned("bool", deleted_count > 1)

\* delete that returns True whatever delete_one reports.
DeleteOutcome_AlwaysTrue(deleted_count) == Returned("bool", TRUE)

\* True if result.deleted_count > 0 else False
DeleteOutcome(deleted_count) == Returned("bool", deleted_count > 0)

\* delete, lines 75-77: delete_one and the return.
Delete_delete_one(p) ==
    /\ pc[p] = "delete_one"
    /\ NoOutcomePending
    /\ LET id == call[p].id
           del == DeleteOne(collection, id)
           out == DeleteOutcome(del.deleted_count)
       IN /\ collection' = del.collection
          /\ result' = [result EXCEPT ![p] = out]
          /\ deletions' = [deletions EXCEPT ![id] = @ + del.deleted_count]
          /\ true_returns' = [true_returns EXCEPT ![id] =
                                 IF out.value THEN @ + 1 ELSE @]
    /\ pc' = [pc EXCEPT ![p] = "done"]
    /\ UNCHANGED <<unique_index, next_uuid, next_oid, now, call,
                   product_model, seen>>

\* The caller takes the outcome and is free to issue its next request.
Return(p) ==
    /\ pc[p] = "done"
    /\ pc' = [pc EXCEPT ![p] = "idle"]
    /\ call' = [call EXCEPT ![p] = NoCall]
    /\ result' = [result EXCEPT ![p] = NoResult]
    /\ product_model' = [product_model EXCEPT ![p] = None]
    /\ seen' = [seen EXCEPT ![p] = 0]
    /\ UNCHANGED <<collection, unique_index, next_uuid, next_oid, now,
                   deletions, true_returns>>

\* The wall clock advances.
Tick ==
    /\ now < MaxClock
    /\ NoOutcomePending
    /\ now' = now + 1
    /\ UNCHANGED <<collection, unique_index, next_uuid, next_oid, pc, call,
                   product_model, result, seen, deletions, true_returns>>

Next ==
    \/ \E p \in Procs, body \in ProductIns, e \in SideEffects :
           Create_create_index(p, body, e)
    \/ \E p \in Procs : Create_insert_one(p)
    \/ \E p \in Procs, id \in Ids : Get(p, id)
    \/ \E p \in Procs, lo \in PriceBounds, hi \in PriceBounds : Query(p, lo, hi)
    \/ \E p \in Procs, id \in Ids, body \in ProductUpdates, e \in SideEffects :
           Update(p, id, body, e)
    \/ \E p \in Procs, id \in Ids : Delete_find_one(p, id)
    \/ \E p \in Procs : Delete_delete_one(p)
    \/ \E p \in Procs : Return(p)
    \/ Tick

\* Concurrent callers: requests interleave at their awaited store calls.
Spec == Init /\ [][Next]_vars

\* No request is in progress.
Quiet == \A q \in Procs : ~InProgress(q)

\* One request at a time: a request starts only when none is in progress.
NextSeq ==
    \/ \E p \in Procs, body \in ProductIns, e \in SideEffects :
           Quiet /\ Create_create_index(p, body, e)
    \/ \E p \in Procs : Create_insert_one(p)
    \/ \E p \in Procs, id \in Ids : Quiet /\ Get(p, id)
    \/ \E p \in Procs, lo \in PriceBounds, hi \in PriceBounds :
           Quiet /\ Query(p, lo, hi)
    \/ \E p \in Procs, id \in Ids, body \in ProductUpdates, e \in SideEffects :
           Quiet /\ Update(p, id, body, e)
    \/ \E p \in Procs, id \in Ids : Quiet /\ Delete_find_one(p, id)
    \/ \E p \in Procs : Delete_delete_one(p)
    \/ \E p \in Procs : Return(p)
    \/ Tick

\* Sequential execution.
SpecSeq == Init /\ [][NextSeq]_vars

\* ------------------------------------------------------------- the claims

\* The steps of a caller, told from the two states of a transition.
Finishes(p, op) == pc[p] # "done" /\ pc'[p] = "done" /\ call'[p].op = op
Starts(p, op) == pc[p] = "idle" /\ pc'[p] # "idle" /\ call'[p].op = op

\* The document with this id (the id is live).
Doc(coll, id) == FindOne(coll, id)[1]

\* C1: when create's insert_one reaches a store that already holds a Product
\* of the same name, create fails with InsertionException carrying exactly
\* "Product with this name already exists." and the store is as before.
C1_DuplicateNameRejected ==
    [][\A p \in Procs :
         (/\ Finishes(p, "create")
          /\ call[p].side_effect = "none"
          /\ product_model[p][1].name \in LiveNames)
         => /\ result'[p] = Raised("InsertionException", DuplicateMessage)
            /\ collection' = collection]_vars

\* C1 happens: a create was rejected for its name while the store holds it.
C1_Witness ==
    \E p \in Procs :
        /\ pc[p] = "done"
        /\ call[p].op = "create"
        /\ call[p].side_effect = "none"
        /\ result[p] = Raised("InsertionException", DuplicateMessage)
        /\ call[p].body.name \in LiveNames

\* C2: an update whose find_one_and_update raises a persistence failure fails
\* with InsertionException "Failed to update product: {cause}", and nothing
\* but NotFoundException and InsertionException ever leaves update.
C2_UpdateWrapsPersistenceFailure ==
    \A p \in Procs :
        (pc[p] = "done" /\ call[p].op = "update")
        => /\ result[p].kind \in
                  {"ProductUpdateOut", "NotFoundException", "InsertionException"}
           /\ call[p].side_effect # "none"
              => result[p] = Raised("InsertionException",
                                    UpdateFailedMessage(call[p].side_effect))

\* C3: every update of an existing Product returns a view whose updated_at is
\* strictly later than the Product's updated_at before the call and whose
\* created_at is the one set at creation.
C3_UpdateRefreshesUpdatedAt ==
    [][\A p \in Procs :
         (/\ Finishes(p, "update")
          /\ call'[p].side_effect = "none"
          /\ call'[p].id \in LiveIds)
         => /\ result'[p].kind = "ProductUpdateOut"
            /\ result'[p].value.updated_at > Doc(collection, call'[p].id).updated_at
            /\ result'[p].value.created_at = Doc(collection, call'[p].id).created_at
       ]_vars

\* The Products an open price range selects.
InOpenRange(document, min_price, max_price) ==
    /\ IsNone(min_price) \/ document.price > min_price[1]
    /\ IsNone(max_price) \/ document.price < max_price[1]

Selected(min_price, max_price) ==
    { ProductOut(collection[i]) :
        i \in {j \in 1..Len(collection) :
                  InOpenRange(collection[j], min_price, max_price)} }

\* C4: query returns exactly the stored Products whose price is strictly
\* above min_price (when given) and strictly below max_price (when given),
\* each once; with nothing selected the result is the empty list.
C4_QueryOpenRange ==
    \A p \in Procs :
        (pc[p] = "done" /\ call[p].op = "query")
        => LET want == Selected(call[p].min_price, call[p].max_price)
               got == result[p].value
           IN /\ result[p].kind = "list"
              /\ {got[i] : i \in 1..Len(got)} = want
              /\ Len(got) = Cardinality(want)
              /\ want = {} => got = <<>>

\* C4 happens: a query with both bounds returned a Product while a Product
\* priced exactly at a bound is in the store and is left out.
C4_Witness ==
    \E p \in Procs :
        /\ pc[p] = "done"
        /\ call[p].op = "query"
        /\ ~IsNone(call[p].min_price)
        /\ ~IsNone(call[p].max_price)
        /\ Len(result[p].value) = 1
        /\ \E i \in 1..Len(collection) :
               collection[i].price \in
                   {call[p].min_price[1], call[p].max_price[1]}

\* C5: in a sequential execution, delete of a live id passes its check and
\* then returns True with the id gone; delete of an id not in the store
\* fails with NotFoundException "Product not found with filter: {id}"; no
\* delete returns False; and a get of an id whose delete returned True fails
\* with that NotFoundException.
C5_SequentialDelete ==
    [][\A p \in Procs :
         /\ Starts(p, "delete")
            => IF call'[p].id \in LiveIds
               THEN pc'[p] = "delete_one"
               ELSE /\ pc'[p] = "done"
                    /\ result'[p] = Raised("NotFoundException",
                                           NotFoundMessage(call'[p].id))
         /\ (pc[p] = "delete_one" /\ pc'[p] = "done")
            => /\ result'[p] = Returned("bool", TRUE)
               /\ call[p].id \notin LiveIds'
         /\ (Finishes(p, "get") /\ true_returns[call'[p].id] > 0)
            => result'[p] = Raised("NotFoundException",
                                   NotFoundMessage(call'[p].id))
       ]_vars

\* C5 happens: a get of an id that a delete returned True for has failed.
C5_Witness ==
    \E p \in Procs :
        /\ pc[p] = "done"
        /\ call[p].op = "get"
        /\ true_returns[call[p].id] = 1
        /\ result[p].kind = "NotFoundException"

\* C6: update of an id that matches no Product fails with NotFoundException
\* "Product not found with filter: {id}" and leaves the store as it was.
C6_UpdateUnknownIdNotFound ==
    [][\A p \in Procs :
         (/\ Finishes(p, "update")
          /\ call'[p].side_effect = "none"
          /\ call'[p].id \notin LiveIds)
         => /\ result'[p] = Raised("NotFoundException",
                                   NotFoundMessage(call'[p].id))
            /\ collection' = collection]_vars

\* C7: in every reachable state no two Products of the store share an id and
\* no two share a name.
C7_UniqueIdAndName ==
    \A i, j \in 1..Len(collection) :
        i # j => /\ collection[i].id # collection[j].id
                 /\ collection[i].name # collection[j].name

\* C7 happens: of two creates racing with one name, the one that built its
\* Product first was rejected and the other's Product is in the store.
C7_Witness ==
    \E p \in Procs :
        /\ pc[p] = "done"
        /\ call[p].op = "create"
        /\ result[p] = Raised("InsertionException", DuplicateMessage)
        /\ \E i \in 1..Len(collection) :
               /\ collection[i].name = call[p].body.name
               /\ collection[i].id > product_model[p][1].id

\* C8: however deletes of one id interleave, the record is removed at most
\* once and exactly the delete that removed it returns True; every other
\* delete returns False or fails with NotFoundException, and a delete returns
\* False only when the record was removed between its check and its
\* delete_one.
C8_ConcurrentDelete ==
    /\ \A id \in Ids :
           /\ deletions[id] <= 1
           /\ true_returns[id] = deletions[id]
    /\ \A p \in Procs :
           (pc[p] = "done" /\ call[p].op = "delete")
           => /\ result[p].kind \in {"bool", "NotFoundException"}
              /\ result[p] = Returned("bool", TRUE)
                 => (deletions[call[p].id] = seen[p] + 1
                     /\ call[p].id \notin LiveIds)
              /\ result[p] = Returned("bool", FALSE)
                 => (deletions[call[p].id] > seen[p]
                     /\ call[p].id \notin LiveIds)

\* C8 happens: a delete that passed its check returned False.
C8_Witness ==
    \E p \in Procs :
        /\ pc[p] = "done"
        /\ call[p].op = "delete"
        /\ result[p] = Returned("bool", FALSE)

\* The Product an update is to leave under the id: the provided fields
\* replaced, updated_at changed, every other field kept.
MergedAs(before, after, body) ==
    /\ \A f \in DOMAIN body :
           after[f] = IF IsNone(body[f]) THEN before[f] ELSE body[f][1]
    /\ after.updated_at # before.updated_at
    /\ after.id = before.id
    /\ after.created_at = before.created_at

\* C9: an update of an existing Product succeeds in setting exactly the
\* provided fields (falsy values included) and updated_at on that Product;
\* its other fields, its id and created_at, and every other Product stay.
C9_UpdateMergesProvidedFields ==
    [][\A p \in Procs :
         (/\ Finishes(p, "update")
          /\ call'[p].side_effect = "none"
          /\ call'[p].id \in LiveIds
          /\ \A f \in DOMAIN call'[p].body :
                 f = "name" /\ ~IsNone(call'[p].body[f])
                 => call'[p].body[f][1] \notin LiveNames)
         => /\ Len(collection') = Len(collection)
            /\ \A i \in 1..Len(collection) :
                   IF collection[i].id = call'[p].id
                   THEN MergedAs(collection[i], collection'[i], call'[p].body)
                   ELSE collection'[i] = collection[i]]_vars

\* C10: the set of live ids changes only by a create that succeeds, which
\* adds exactly its new id, and by a delete that returns True, which removes
\* exactly its id; get, query, update and every request that fails with
\* NotFoundException or InsertionException leave it as it is.
C10_LiveIdsFrame ==
    [][/\ LiveIds' # LiveIds
          => \E p \in Procs :
                 \/ /\ Finishes(p, "create")
                    /\ result'[p].kind = "ProductOut"
                    /\ product_model[p][1].id \notin LiveIds
                    /\ LiveIds' = LiveIds \cup {product_model[p][1].id}
                 \/ /\ Finishes(p, "delete")
                    /\ result'[p] = Returned("bool", TRUE)
                    /\ call[p].id \in LiveIds
                    /\ LiveIds' = LiveIds \ {call[p].id}
       /\ \A p \in Procs :
              (\/ Finishes(p, "get")
               \/ Finishes(p, "query")
               \/ Finishes(p, "update")
               \/ (pc[p] # "done" /\ pc'[p] = "done" /\
                   result'[p].kind \in {"NotFoundException", "InsertionException"}))
              => LiveIds' = LiveIds]_vars

\* C10 happens: an update was issued for an id whose delete returned True,
\* and the id is not live.
C10_Witness ==
    \E p \in Procs :
        /\ pc[p] = "done"
        /\ call[p].op = "update"
        /\ true_returns[call[p].id] = 1
        /\ call[p].id \notin LiveIds

====
